---- MODULE Spec2Model ----
(***************************************************************************)
(* Model of pkg/chartutil/jsonschema.go: ValidateAgainstSchema walks a     *)
(* chart and its dependencies, ValidateAgainstSingleSchema converts the    *)
(* values of one chart to JSON and validates them with one of two JSON     *)
(* Schema libraries, chosen by validateUsingNewValidator from the schema's *)
(* "$schema" member.                                                       *)
(***************************************************************************)
EXTENDS Integers, Sequences, FiniteSets

\* Number of charts of the largest chart tree explored.
NumCharts == 4

----------------------------------------------------------------------------
\* Charts are numbered like a binary heap: chart n depends on 2n and 2n+1.

ChartNames == <<"root", "db", "cache", "web", "api", "queue", "auth", "mail">>

Name(n) == ChartNames[n]

SeqRange(s) == {s[i] : i \in 1..Len(s)}

----------------------------------------------------------------------------
\* Schema documents (chrt.Schema, a []byte).  present: chrt.Schema != nil.
\* valid: the bytes are well-formed JSON.  dialect: the "$schema" member as
\* a sequence of URI tokens (<<>>: no member, or the empty string).  type,
\* required: the keywords the schema states.  reject: the library stage, if
\* any, that refuses the documents.  trap: validating raises a run-time panic.

NoDialect == <<>>

Draft04 == <<"http", ":", "//", "json-schema.org", "/draft-04", "/schema", "#">>
Draft06 == <<"http", ":", "//", "json-schema.org", "/draft-06", "/schema", "#">>
Draft07 == <<"http", ":", "//", "json-schema.org", "/draft-07", "/schema", "#">>
Draft2020 ==
    <<"https", ":", "//", "json-schema.org", "/draft", "/2020-12", "/schema">>

Dialects ==
    { NoDialect, Draft04, Draft06, Draft07, Draft2020,
      <<"https", ":", "//", "json-schema.org", "/draft-07", "/schema">>,
      <<"http", ":", "//", "json-schema.org", "/draft-07", "/schema", "?", "x">>,
      <<"//", "json-schema.org", "/draft-06", "/schema">>,
      <<"http", ":", "//", "json-schema.org", "/draft-07", "/schema", "/">>,
      <<"http", ":", "//", "json-schema.org", "/draft%2D07", "/schema">>,
      <<"http", ":", "//", "json-schema.org", "/draft-07">>,
      <<"http", ":", "//", "json-schema.org", "#", "/draft-07", "/schema">>,
      <<"http", ":", "//", "json-schema.org:80", "/draft-07", "/schema">>,
      <<"http", ":", "//", "example.com", "/draft-07", "/schema", "#">>,
      <<"http", ":", "json-schema.org", "/draft-07", "/schema">>,
      <<"json-schema.org", "/draft-07", "/schema">>,
      <<":", "//", "json-schema.org", "/draft-07", "/schema">>,
      <<"http", ":", "//", "json-schema.org", "/draft-07", "/schema", "<DEL>">>,
      <<"http", ":", "//", "json-schema.org", "/draft-07", "/%zz">>,
      <<"urn", ":", "vendor-dialect">> }

SchemaDoc(d, t, r, rej, tr) ==
    [present |-> TRUE, valid |-> TRUE, dialect |-> d, type |-> t,
     required |-> r, reject |-> rej, trap |-> tr]

NoSchema ==
    [present |-> FALSE, valid |-> TRUE, dialect |-> NoDialect, type |-> "any",
     required |-> {}, reject |-> "none", trap |-> FALSE]

NotJSON ==
    [present |-> TRUE, valid |-> FALSE, dialect |-> Draft2020, type |-> "any",
     required |-> {}, reject |-> "schema", trap |-> FALSE]

LegacyReqA == SchemaDoc(NoDialect, "object", {"a"}, "none", FALSE)
LegacyObj == SchemaDoc(NoDialect, "object", {}, "none", FALSE)
ModernReqA == SchemaDoc(Draft2020, "any", {"a"}, "none", FALSE)
ModernBroken == SchemaDoc(Draft2020, "object", {}, "compile", FALSE)
LegacyTrap == SchemaDoc(Draft07, "object", {}, "none", TRUE)
ModernTrap == SchemaDoc(Draft2020, "object", {}, "none", TRUE)

\* Values (map[string]interface{}) as found under the chart's name in the
\* parent's values.  slot: "map", "nil" (a nil map), "absent" (no such key)
\* or "scalar" (a value that is no map).  keys: the chart's own keys.
\* bad: the map holds a value that cannot be serialized.

Vals(s, k, b) == [slot |-> s, keys |-> k, bad |-> b]

EmptyMap == Vals("map", {}, FALSE)
MapA == Vals("map", {"a"}, FALSE)
BadMap == Vals("map", {"a"}, TRUE)
NilMap == Vals("nil", {}, FALSE)
Absent == Vals("absent", {}, FALSE)
Scalar == Vals("scalar", {}, FALSE)

Input(s, v) == [schema |-> s, vals |-> v]

\* The inputs of the charts of a tree of several charts.
TreeInputs ==
    { Input(NoSchema, EmptyMap), Input(LegacyReqA, MapA),
      Input(LegacyReqA, EmptyMap), Input(ModernBroken, EmptyMap),
      Input(LegacyReqA, BadMap), Input(NoSchema, BadMap),
      Input(LegacyTrap, EmptyMap), Input(NoSchema, Absent),
      Input(NoSchema, Scalar) }

\* The inputs of a tree of one chart.
WideInputs ==
    TreeInputs
    \cup { Input(SchemaDoc(d, "object", {"a"}, "none", FALSE), v) :
             d \in Dialects, v \in {EmptyMap, MapA} }
    \cup { Input(SchemaDoc(d, t, {}, rej, tr), v) :
             d \in {NoDialect, Draft07, Draft2020}, t \in {"object", "any"},
             rej \in {"none", "schema", "values", "resource", "compile"},
             tr \in BOOLEAN, v \in {EmptyMap, NilMap} }
    \cup { Input(s, v) : s \in {NoSchema, NotJSON, ModernReqA, LegacyObj, LegacyTrap,
                               ModernTrap},
                         v \in {EmptyMap, MapA, BadMap, NilMap} }

----------------------------------------------------------------------------
\* net/url.Parse on URI tokens, as far as the fields read here go.

SchemeNames == {"http", "https", "urn"}
PathTokens ==
    {"/", "/schema", "/draft", "/2020-12", "/draft-04", "/draft-06",
     "/draft-07", "/draft%2D07", "/%zz"}
InvalidEscapes == {"/%zz"}
ColonTokens == {":", "json-schema.org:80"}

IndexOf(s, t) ==
    IF t \in SeqRange(s)
    THEN CHOOSE i \in 1..Len(s) : s[i] = t /\ \A j \in 1..(i - 1) : s[j] # t
    ELSE 0

Before(s, t) == IF IndexOf(s, t) = 0 THEN s ELSE SubSeq(s, 1, IndexOf(s, t) - 1)

ParseError == [err |-> TRUE, Scheme |-> "", Host |-> "", RawPath |-> <<>>]

ParsedURL(scheme, host, path) ==
    [err |-> FALSE, Scheme |-> scheme, Host |-> host, RawPath |-> path]

\* The part of parse after the scheme and the query are cut off.
ParseRest(scheme, rest) ==
    IF rest = <<>> THEN ParsedURL(scheme, "", <<>>)
    ELSE IF rest[1] # "//" /\ rest[1] \notin PathTokens
    THEN IF scheme # "" THEN ParsedURL(scheme, "", <<>>)      \* url.Opaque
         ELSE IF rest[1] \in ColonTokens THEN ParseError
         ELSE ParsedURL(scheme, "", rest)
    ELSE LET hasAuth == rest[1] = "//"
             hasHost == hasAuth /\ Len(rest) >= 2 /\ rest[2] \notin PathTokens
             host == IF hasHost THEN rest[2] ELSE ""
             path == IF hasHost THEN SubSeq(rest, 3, Len(rest))
                     ELSE IF hasAuth THEN SubSeq(rest, 2, Len(rest))
                     ELSE rest
         IN  IF SeqRange(path) \cap InvalidEscapes # {} THEN ParseError
             ELSE ParsedURL(scheme, host, path)

urlParse(raw) ==
    LET u == Before(raw, "#")
    IN  IF "<DEL>" \in SeqRange(u) THEN ParseError
        ELSE IF u # <<>> /\ u[1] = ":" THEN ParseError
        ELSE LET hasScheme == Len(u) >= 2 /\ u[1] \in SchemeNames /\ u[2] = ":"
                 scheme == IF hasScheme THEN u[1] ELSE ""
                 rest == IF hasScheme THEN SubSeq(u, 3, Len(u)) ELSE u
             IN  ParseRest(scheme, Before(rest, "?"))

EscapedPath(url) == url.RawPath

----------------------------------------------------------------------------
\* Errors.  class: where the error comes from; msg, details: its text.

NilErr == [class |-> "nil", msg |-> "", details |-> {}]

Err(class, msg, details) == [class |-> class, msg |-> msg, details |-> details]

ConversionErr == Err("conversion", "json: unsupported value", {})

\* JSON documents of values.
NullDoc == [kind |-> "null", keys |-> {}]
ObjectDoc(keys) == [kind |-> "object", keys |-> keys]

\* The charts chart n depends on, in a tree of size charts.
Children(size, n) == {c \in {2 * n, 2 * n + 1} : c <= size}

IsMap(v) == v.slot \in {"map", "nil"}

\* Whether the values of chart n, which hold the values of its dependencies
\* under their names, hold a value that cannot be serialized.
RECURSIVE Unserializable(_, _, _)
Unserializable(inp, size, n) ==
    \/ inp[n].vals.bad
    \/ \E c \in Children(size, n) :
          inp[c].vals.slot = "map" /\ Unserializable(inp, size, c)

\* The values argument of the call for chart n.
NativeValues(inp, size, n) ==
    [isNil |-> inp[n].vals.slot = "nil",
     keys |-> inp[n].vals.keys
              \cup {Name(c) : c \in {d \in Children(size, n) :
                                        inp[d].vals.slot # "absent"}},
     bad |-> Unserializable(inp, size, n)]

\* Mutant: the conversion error is dropped.
yamlToJSON_IgnoreError(values) ==
    [err |-> NilErr,
     json |-> IF values.isNil THEN NullDoc ELSE ObjectDoc(values.keys)]

\* yaml.Marshal then yaml.YAMLToJSON.
yamlToJSON(values) ==
    IF values.bad THEN [err |-> ConversionErr, json |-> NullDoc]
    ELSE [err |-> NilErr,
          json |-> IF values.isNil THEN NullDoc ELSE ObjectDoc(values.keys)]

\* Mutant: the null document is handed on as it is.
NullToEmptyObject_Keep(json) == json

\* bytes.Equal(valuesJSON, []byte("null")): the empty-object substitution.
NullToEmptyObject(json) == IF json = NullDoc THEN ObjectDoc({}) ELSE json

\* What either library finds wrong with a document.
Violations(schema, json) ==
    (IF schema.type = "object" /\ json.kind # "object" THEN {"type"} ELSE {})
    \cup (IF json.kind = "object" THEN schema.required \ json.keys ELSE {})

\* The outcome of a call that may panic.
Returned(processed, err, steps) ==
    [panic |-> "", processed |-> processed, err |-> err, steps |-> steps]

Panicked(desc, steps) ==
    [panic |-> desc, processed |-> FALSE, err |-> NilErr, steps |-> steps]

LegacyPaths ==
    { <<"/draft-04", "/schema">>, <<"/draft-06", "/schema">>,
      <<"/draft-07", "/schema">> }

\* json.Unmarshal into partialSchema: the member is read from valid JSON only.
partialSchema(schema) == IF schema.valid THEN schema.dialect ELSE NoDialect

\* Mutant: the host is not compared.
KeepsOldValidator_AnyHost(url) == EscapedPath(url) \in LegacyPaths

\* The switch on url.EscapedPath() for host json-schema.org.
KeepsOldValidator(url) ==
    url.Host = "json-schema.org" /\ EscapedPath(url) \in LegacyPaths

\* Mutant: a schema that does not compile is used all the same.
newValidatorRun_IgnoreCompileError(valuesJSON, schema) ==
    IF schema.reject = "schema" THEN Returned(TRUE, Err("malformed", "UnmarshalJSON schema", {}), 1)
    ELSE IF schema.reject = "values" THEN Returned(TRUE, Err("malformed", "UnmarshalJSON values", {}), 2)
    ELSE IF schema.reject = "resource" THEN Returned(TRUE, Err("malformed", "AddResource", {}), 3)
    ELSE IF schema.trap THEN Panicked("runtime error in jsonschema", 5)
    ELSE IF Violations(schema, valuesJSON) = {} THEN Returned(TRUE, NilErr, 5)
    ELSE Returned(TRUE, Err("violation", "jsonschema validation failed",
                            Violations(schema, valuesJSON)), 5)

\* The steps of the new library, each returning its error at once.
newValidatorRun(valuesJSON, schema) ==
    IF schema.reject = "schema" THEN Returned(TRUE, Err("malformed", "UnmarshalJSON schema", {}), 1)
    ELSE IF schema.reject = "values" THEN Returned(TRUE, Err("malformed", "UnmarshalJSON values", {}), 2)
    ELSE IF schema.reject = "resource" THEN Returned(TRUE, Err("malformed", "AddResource", {}), 3)
    ELSE IF schema.reject = "compile" THEN Returned(TRUE, Err("malformed", "Compile", {}), 4)
    ELSE IF schema.trap THEN Panicked("runtime error in jsonschema", 5)
    ELSE IF Violations(schema, valuesJSON) = {} THEN Returned(TRUE, NilErr, 5)
    ELSE Returned(TRUE, Err("violation", "jsonschema validation failed",
                            Violations(schema, valuesJSON)), 5)

validateUsingNewValidator(valuesJSON, schema) ==
    IF partialSchema(schema) = NoDialect THEN Returned(FALSE, NilErr, 0)
    ELSE LET url == urlParse(partialSchema(schema))
         IN  IF url.err THEN Returned(FALSE, NilErr, 0)
             ELSE IF KeepsOldValidator(url) THEN Returned(FALSE, NilErr, 0)
             ELSE newValidatorRun(valuesJSON, schema)

\* gojsonschema.Validate and the bullet list of result.Errors().
gojsonschemaValidate(valuesJSON, schema) ==
    IF ~schema.present \/ ~schema.valid \/ schema.reject # "none"
    THEN Returned(FALSE, Err("malformed", "gojsonschema load", {}), 1)
    ELSE IF schema.trap THEN Panicked("runtime error in gojsonschema", 1)
    ELSE IF Violations(schema, valuesJSON) = {} THEN Returned(FALSE, NilErr, 1)
    ELSE Returned(FALSE, Err("violation", "- ", Violations(schema, valuesJSON)), 1)

\* Mutant: no deferred recover, the panic leaves the call.
recover_Absent(outcome) ==
    IF outcome.panic # "" THEN Err("panic", outcome.panic, {}) ELSE outcome.err

\* The deferred recover of ValidateAgainstSingleSchema.
recover(outcome) ==
    IF outcome.panic # ""
    THEN Err("fault", "unable to validate schema: ", {outcome.panic})
    ELSE outcome.err

----------------------------------------------------------------------------
\* The state.  size, deps, input: the chart tree and the values, read only.
\* stack: the frames of ValidateAgainstSchema, the innermost last.
\* calls: for each chart, its call of ValidateAgainstSingleSchema.
\* visited: the charts entered so far, in order.
\* result: what the outermost ValidateAgainstSchema call gave its caller.

VARIABLES size, deps, input, stack, calls, visited, result

vars == <<size, deps, input, stack, calls, visited, result>>

Charts == 1..size

\* chrt.Dependencies() of every chart: in heap order, or all reversed.
DependencyOrder(sz, reversed) ==
    [n \in 1..sz |->
        IF 2 * n + 1 <= sz
        THEN IF reversed THEN <<2 * n + 1, 2 * n>> ELSE <<2 * n, 2 * n + 1>>
        ELSE IF 2 * n <= sz THEN <<2 * n>> ELSE <<>>]

Parent(n) == n \div 2

\* The values argument is a map; the values under a map that is absent,
\* nil or no map hold nothing, and their charts are never entered.
WellFormedInput(sz, inp) ==
    /\ IsMap(inp[1].vals)
    /\ \A n \in 2..sz :
          inp[Parent(n)].vals.slot # "map" => inp[n] = Input(NoSchema, Absent)

Frame(n) == [chart |-> n, pc |-> "schema", sb |-> <<>>, i |-> 1]

IdleCall ==
    [pc |-> "idle", valuesJSON |-> NullDoc, processed |-> FALSE,
     err |-> NilErr, reterr |-> NilErr, modern |-> 0, legacy |-> 0,
     panic |-> ""]

Running == [kind |-> "running", report |-> <<>>]

Init ==
    /\ size \in 1..NumCharts
    /\ deps \in {DependencyOrder(size, r) : r \in {FALSE, size >= 3}}
    /\ input \in {inp \in [1..size -> IF size = 1 THEN WideInputs ELSE TreeInputs] :
                    WellFormedInput(size, inp)}
    /\ stack = <<Frame(1)>>
    /\ calls = [n \in 1..size |-> IdleCall]
    /\ visited = <<>>
    /\ result = Running

Top == stack[Len(stack)]

SetTop(f) == [stack EXCEPT ![Len(stack)] = f]

\* Mutant: a chart without a schema is validated too.
HasSchema_Always(chrt) == TRUE

\* chrt.Schema != nil
HasSchema(chrt) == chrt.schema.present

\* Lines 39-42: the section of a chart whose own check gave an error.
WriteSection(sb, name, err) ==
    IF err # NilErr THEN Append(sb, [name |-> name, err |-> err]) ELSE sb

\* Mutant: the two-value form of the assertion, which gives a nil map.
LookupPanics_CommaOk(vals) == FALSE

\* values[subchart.Name()].(map[string]interface{}): a panic unless a map.
LookupPanics(vals) == ~IsMap(vals)

\* Lines 53-57.
ReturnValue(sb) ==
    IF Len(sb) > 0 THEN [kind |-> "error", report |-> sb]
    ELSE [kind |-> "nil", report |-> <<>>]

\* Mutant: a dependency's errors are kept only while there are none yet.
AppendDependency_FirstOnly(sb, ret) ==
    IF ret.kind # "nil" /\ sb = <<>> THEN ret.report ELSE sb

\* Mutant: a dependency's errors are put in front.
AppendDependency_InFront(sb, ret) ==
    IF ret.kind # "nil" THEN ret.report \o sb ELSE sb

\* Lines 48-50: the caller's use of a dependency's return value.
AppendDependency(sb, ret) == IF ret.kind # "nil" THEN sb \o ret.report ELSE sb

Crash == [kind |-> "panic", report |-> <<>>]

\* Line 37: enter a chart and test for its schema.
CheckSchema ==
    /\ stack # <<>>
    /\ Top.pc = "schema"
    /\ visited' = Append(visited, Top.chart)
    /\ IF HasSchema(input[Top.chart])
       THEN /\ stack' = SetTop([Top EXCEPT !.pc = "validate"])
            /\ calls' = [calls EXCEPT ![Top.chart].pc = "marshal"]
       ELSE /\ stack' = SetTop([Top EXCEPT !.pc = "deps"])
            /\ UNCHANGED calls
    /\ UNCHANGED <<size, deps, input, result>>

\* Lines 68-78: the values as JSON.
Marshal ==
    /\ stack # <<>>
    /\ Top.pc = "validate"
    /\ calls[Top.chart].pc = "marshal"
    /\ LET conv == yamlToJSON(NativeValues(input, size, Top.chart))
       IN  calls' = [calls EXCEPT ![Top.chart] =
              IF conv.err # NilErr
              THEN [@ EXCEPT !.pc = "returned", !.reterr = conv.err]
              ELSE [@ EXCEPT !.pc = "route",
                             !.valuesJSON = NullToEmptyObject(conv.json)]]
    /\ UNCHANGED <<size, deps, input, stack, visited, result>>

\* Line 80: the call of validateUsingNewValidator.
NewValidator ==
    /\ stack # <<>>
    /\ Top.pc = "validate"
    /\ calls[Top.chart].pc = "route"
    /\ LET c == calls[Top.chart]
           r == validateUsingNewValidator(c.valuesJSON, input[Top.chart].schema)
       IN  calls' = [calls EXCEPT ![Top.chart] =
              IF r.panic # ""
              THEN [c EXCEPT !.pc = "returned", !.panic = r.panic,
                             !.modern = r.steps, !.reterr = recover(r)]
              ELSE [c EXCEPT !.pc = "dispatch", !.processed = r.processed,
                             !.err = r.err, !.modern = r.steps]]
    /\ UNCHANGED <<size, deps, input, stack, visited, result>>

\* Mutant: an error of the new validator falls through to the old one.
ReturnsNewResult_OnSuccess(processed, err) == processed /\ err = NilErr

\* Line 80: whether the new validator's answer ends the call.
ReturnsNewResult(processed, err) == processed

\* Lines 80-82: processed, so the new validator's error is the result.
ReturnProcessed ==
    /\ stack # <<>>
    /\ Top.pc = "validate"
    /\ calls[Top.chart].pc = "dispatch"
    /\ ReturnsNewResult(calls[Top.chart].processed, calls[Top.chart].err)
    /\ calls' = [calls EXCEPT ![Top.chart].pc = "returned",
                              ![Top.chart].reterr = calls[Top.chart].err]
    /\ UNCHANGED <<size, deps, input, stack, visited, result>>

\* Lines 84-100: not processed, so gojsonschema validates.
OldValidator ==
    /\ stack # <<>>
    /\ Top.pc = "validate"
    /\ calls[Top.chart].pc = "dispatch"
    /\ ~ReturnsNewResult(calls[Top.chart].processed, calls[Top.chart].err)
    /\ LET c == calls[Top.chart]
           r == gojsonschemaValidate(c.valuesJSON, input[Top.chart].schema)
       IN  calls' = [calls EXCEPT ![Top.chart] =
              [c EXCEPT !.pc = "returned", !.panic = r.panic,
                        !.legacy = r.steps, !.reterr = recover(r)]]
    /\ UNCHANGED <<size, deps, input, stack, visited, result>>

\* Lines 38-43: the call returns; an error becomes the chart's section.  A
\* panic that left the call unrecovered would end the walk.
SchemaChecked ==
    /\ stack # <<>>
    /\ Top.pc = "validate"
    /\ calls[Top.chart].pc = "returned"
    /\ calls' = [calls EXCEPT ![Top.chart].pc = "done"]
    /\ IF calls[Top.chart].reterr.class = "panic"
       THEN stack' = <<>> /\ result' = Crash
       ELSE /\ stack' = SetTop([Top EXCEPT
                   !.pc = "deps",
                   !.sb = WriteSection(Top.sb, Name(Top.chart),
                                       calls[Top.chart].reterr)])
            /\ UNCHANGED result
    /\ UNCHANGED <<size, deps, input, visited>>

\* Lines 46-48: the next dependency and its values.
VisitDependency ==
    /\ stack # <<>>
    /\ Top.pc = "deps"
    /\ Top.i <= Len(deps[Top.chart])
    /\ LET subchart == deps[Top.chart][Top.i]
       IN  IF LookupPanics(input[subchart].vals)
           THEN stack' = <<>> /\ result' = Crash
           ELSE stack' = Append(stack, Frame(subchart)) /\ UNCHANGED result
    /\ UNCHANGED <<size, deps, input, calls, visited>>

\* Lines 53-57, and lines 48-50 in the caller.
Return ==
    /\ stack # <<>>
    /\ Top.pc = "deps"
    /\ Top.i > Len(deps[Top.chart])
    /\ LET ret == ReturnValue(Top.sb)
           n == Len(stack)
       IN  IF n = 1
           THEN stack' = <<>> /\ result' = ret
           ELSE /\ stack' = [SubSeq(stack, 1, n - 1) EXCEPT ![n - 1] =
                       [@ EXCEPT !.sb = AppendDependency(@, ret), !.i = @ + 1]]
                /\ UNCHANGED result
    /\ UNCHANGED <<size, deps, input, calls, visited>>

Next ==
    \/ CheckSchema
    \/ Marshal
    \/ NewValidator
    \/ ReturnProcessed
    \/ OldValidator
    \/ SchemaChecked
    \/ VisitDependency
    \/ Return

Spec == Init /\ [][Next]_vars

\* Lines 61-101 as a function of the values and the schema of chart n.
ValidateAgainstSingleSchema(inp, sz, n) ==
    LET conv == yamlToJSON(NativeValues(inp, sz, n))
        json == NullToEmptyObject(conv.json)
        new == validateUsingNewValidator(json, inp[n].schema)
    IN  IF conv.err # NilErr THEN conv.err
        ELSE IF new.panic # "" THEN recover(new)
        ELSE IF new.processed THEN new.err
        ELSE recover(gojsonschemaValidate(json, inp[n].schema))

----------------------------------------------------------------------------
\* Properties.

Done == result.kind # "running"

Visited == SeqRange(visited)

\* Every dependency's values are a map in the values of its parent.
SubtreesPresent == \A n \in 2..size : IsMap(input[n].vals)

\* The own check of chart n gives an error.
FailsOwnCheck(n) ==
    /\ input[n].schema.present
    /\ ValidateAgainstSingleSchema(input, size, n) # NilErr

ReportNames == [i \in 1..Len(result.report) |-> result.report[i].name]

SectionsOf(n) == {i \in 1..Len(result.report) : result.report[i].name = Name(n)}

\* Every section written so far, returned or still in a frame.
Written ==
    SeqRange(result.report)
    \cup UNION {SeqRange(stack[i].sb) : i \in 1..Len(stack)}

\* The charts of the tree, parent first, dependencies in their order.
RECURSIVE PreOrder(_)
PreOrder(n) ==
    <<n>> \o (IF Len(deps[n]) = 0 THEN <<>>
              ELSE IF Len(deps[n]) = 1 THEN PreOrder(deps[n][1])
              ELSE PreOrder(deps[n][1]) \o PreOrder(deps[n][2]))

IsPrefix(a, b) == Len(a) <= Len(b) /\ SubSeq(b, 1, Len(a)) = a

\* A visited chart has a dependency whose values are absent or no map.
StructuralMismatch ==
    \E n \in Visited : \E i \in 1..Len(deps[n]) : ~IsMap(input[deps[n][i]].vals)

\* C1: when every dependency's values are present, the walk visits every
\* chart and the report holds exactly one section for each chart whose own
\* check fails and none for any other chart, whatever else failed.
C1_NoShortCircuit ==
    (Done /\ SubtreesPresent) =>
        /\ result.kind \in {"nil", "error"}
        /\ Visited = Charts
        /\ \A n \in Charts :
              Cardinality(SectionsOf(n)) = IF FailsOwnCheck(n) THEN 1 ELSE 0
        /\ Len(result.report) = Cardinality({n \in Charts : FailsOwnCheck(n)})

\* C1 witness: the root and its first dependency fail, its second
\* dependency has a schema and satisfies it, and the report has two sections.
C1_Witness ==
    /\ Done /\ SubtreesPresent /\ size = 3
    /\ FailsOwnCheck(1) /\ FailsOwnCheck(deps[1][1])
    /\ input[deps[1][2]].schema.present /\ ~FailsOwnCheck(deps[1][2])
    /\ Len(result.report) = 2

\* C2: charts are entered parent first and dependencies in their order, a
\* chart's own check is over before a dependency of it is entered, and the
\* sections of the report are in that same order.
C2_PreOrderReport ==
    /\ IsPrefix(visited, PreOrder(1))
    /\ \A c \in Visited \ {1} :
          /\ Parent(c) \in Visited
          /\ input[Parent(c)].schema.present => calls[Parent(c)].pc = "done"
    /\ result.kind \in {"nil", "error"} =>
          LET failing == SelectSeq(PreOrder(1), FailsOwnCheck)
          IN  ReportNames = [i \in 1..Len(failing) |-> Name(failing[i])]

\* C2 witness: a tree three levels deep with reversed dependencies in which
\* four charts fail.
C2_Witness ==
    /\ result.kind = "error" /\ size >= 4
    /\ deps[1] = <<3, 2>>
    /\ Len(result.report) >= 4

\* The rule of the claim: the $schema value is absent, empty or no URI, or
\* its host is json-schema.org and its path one of the three drafts.
DeclaresLegacyDialect(schema) ==
    LET declared == IF schema.valid THEN schema.dialect ELSE <<>>
        url == urlParse(declared)
    IN  \/ declared = <<>>
        \/ url.err
        \/ /\ url.Host = "json-schema.org"
           /\ url.RawPath \in { <<"/draft-04", "/schema">>,
                                 <<"/draft-06", "/schema">>,
                                 <<"/draft-07", "/schema">> }

\* The library a call has reached: the new one once one of its steps has
\* run, the old one once the call is bound for it.
EngineOf(n) ==
    IF calls[n].modern > 0 THEN "modern"
    ELSE IF calls[n].legacy > 0 THEN "legacy"
    ELSE IF calls[n].pc = "dispatch" /\ ~calls[n].processed THEN "legacy"
    ELSE "none"

\* C3: the library used for a schema is the old one exactly when the
\* schema declares a legacy dialect, and the new one otherwise.
C3_EngineSelection ==
    \A n \in Charts :
        EngineOf(n) # "none" =>
            (EngineOf(n) = "legacy" <=> DeclaresLegacyDialect(input[n].schema))

\* C3 witness: a schema naming another host with a draft-07 path has been
\* given to the new library.
C3_Witness ==
    \E n \in Charts :
        /\ EngineOf(n) = "modern"
        /\ input[n].schema.dialect =
              <<"http", ":", "//", "example.com", "/draft-07", "/schema", "#">>

\* The values of chart n cannot be converted and its schema is checked.
ConversionFails(n) ==
    input[n].schema.present /\ Unserializable(input, size, n)

\* Chart m is entered after chart n.
EnteredAfter(m, n) ==
    \E i, j \in 1..Len(visited) : i < j /\ visited[i] = n /\ visited[j] = m

\* C4 as stated: a conversion error ends the whole walk at once, no chart
\* is checked after it and no section is written for it.
C4_AsStated ==
    \A n \in Charts :
        (calls[n].pc \in {"returned", "done"} /\ ConversionFails(n)) =>
            /\ \A m \in Charts : ~EnteredAfter(m, n)
            /\ \A sec \in Written : sec.err.class # "conversion"

\* C4 amended: a conversion error ends the call for that chart at once,
\* before either library runs; the walk does not stop: the error becomes
\* the section of that chart and its dependencies are still entered.
C4_ConversionAggregated ==
    \A n \in Charts :
        /\ (calls[n].pc \in {"returned", "done"} /\ ConversionFails(n)) =>
              /\ calls[n].reterr = ConversionErr
              /\ calls[n].modern = 0 /\ calls[n].legacy = 0
        /\ (result.kind \in {"nil", "error"} /\ n \in Visited
                /\ ConversionFails(n)) =>
              /\ [name |-> Name(n), err |-> ConversionErr] \in SeqRange(result.report)
              /\ SeqRange(deps[n]) \subseteq Visited

\* C4 witness: the root's conversion failed, and a dependency with a schema
\* of its own was checked afterwards.
C4_Witness ==
    /\ result.kind = "error"
    /\ ConversionFails(1)
    /\ \E c \in SeqRange(deps[1]) :
          /\ calls[c].pc = "done" /\ ~ConversionFails(c)
          /\ EnteredAfter(c, 1)

\* C5: a dependency whose values are absent from the parent's values, or
\* are no map, ends the walk with a panic and nothing else does: the call
\* returns neither success nor a report, at any depth.
C5_StructuralMismatchPanics ==
    /\ (Done /\ StructuralMismatch) => result = Crash
    /\ result.kind = "panic" => StructuralMismatch
    /\ (~Done /\ stack # <<>>) =>
          \A i \in 1..Len(stack) : IsMap(input[stack[i].chart].vals)

\* C5 witness: the panic comes from a chart below the root, after a section
\* had been written for the root.
C5_Witness ==
    /\ size >= 4
    /\ result = Crash
    /\ IsMap(input[2].vals) /\ IsMap(input[3].vals)
    /\ ~IsMap(input[4].vals)
    /\ FailsOwnCheck(1)

\* The new library is chosen for the schema of chart n and refuses it.
NewLibraryRefuses(n) ==
    /\ input[n].schema.present
    /\ ~Unserializable(input, size, n)
    /\ ~DeclaresLegacyDialect(input[n].schema)
    /\ input[n].schema.reject # "none"

\* C6 as stated: the refusal of a schema by the new library is never
\* reported the way a violation is, as the section of its chart.
C6_AsStated ==
    \A n \in Charts :
        NewLibraryRefuses(n) =>
            \A sec \in Written :
                ~(sec.name = Name(n) /\ sec.err.class = "malformed")

\* C6 amended: the refusal is returned at once with processed set, the
\* values are not validated and the old library is not tried; the walk
\* writes it as the section of its chart, as it does a violation, and goes on.
C6_MalformedReturnedAtOnce ==
    \A n \in Charts :
        /\ (calls[n].pc \in {"dispatch", "returned", "done"}
                /\ NewLibraryRefuses(n)) =>
              /\ calls[n].processed
              /\ calls[n].err.class = "malformed"
              /\ calls[n].modern \in 1..4
              /\ calls[n].legacy = 0
        /\ (calls[n].pc \in {"returned", "done"} /\ NewLibraryRefuses(n)) =>
              calls[n].reterr = calls[n].err
        /\ (result.kind \in {"nil", "error"} /\ n \in Visited
                /\ NewLibraryRefuses(n)) =>
              /\ [name |-> Name(n), err |-> calls[n].reterr] \in SeqRange(result.report)
              /\ SeqRange(deps[n]) \subseteq Visited

\* C6 witness: a schema that does not compile, in a chart with a dependency
\* that was entered afterwards.
C6_Witness ==
    /\ result.kind = "error"
    /\ NewLibraryRefuses(1) /\ input[1].schema.reject = "compile"
    /\ \E c \in SeqRange(deps[1]) : EnteredAfter(c, 1)

\* C7: a panic inside either library makes the call return the error
\* "unable to validate schema: " with the panic's description, and never
\* leaves the call: the walk goes on to write the chart's section, and
\* ends in a panic only where a dependency's values are no map.
C7_PanicRecovered ==
    /\ \A n \in Charts :
          calls[n].panic # "" =>
              /\ calls[n].pc \in {"returned", "done"}
              /\ calls[n].reterr.class = "fault"
              /\ calls[n].reterr.msg = "unable to validate schema: "
              /\ calls[n].reterr.details = {calls[n].panic}
              /\ (calls[n].pc = "done" /\ result.kind # "panic") =>
                    [name |-> Name(n), err |-> calls[n].reterr] \in Written
    /\ \A n \in Charts :
          (calls[n].pc \in {"returned", "done"} /\ input[n].schema.trap
              /\ input[n].schema.reject = "none" /\ input[n].schema.valid
              /\ ~Unserializable(input, size, n)) => calls[n].panic # ""
    /\ result.kind = "panic" => StructuralMismatch

\* C7 witness: the new library panicked and the call has returned.
C7_Witness ==
    \E n \in Charts :
        /\ calls[n].pc = "done"
        /\ calls[n].panic = "runtime error in jsonschema"
        /\ calls[n].modern > 0

\* C7 witness on the other path: the old library panicked in a dependency.
C7_WitnessOld ==
    \E n \in Charts \ {1} :
        /\ calls[n].pc = "done"
        /\ calls[n].panic = "runtime error in gojsonschema"
        /\ Done

\* C8 as stated: a tree without any schema always gives success.
C8_AsStated ==
    (Done /\ \A n \in Charts : ~input[n].schema.present) =>
        result.kind = "nil"

\* C8 amended: a tree without any schema gives success whatever the values
\* hold, provided every dependency's values are a map in its parent's.
C8_SchemaLessSucceeds ==
    (Done /\ SubtreesPresent /\ \A n \in Charts : ~input[n].schema.present) =>
        /\ result = [kind |-> "nil", report |-> <<>>]
        /\ Visited = Charts
        /\ \A n \in Charts : calls[n] = IdleCall

\* C8 witness: success for a tree without schemas whose values cannot be
\* serialized.
C8_Witness ==
    /\ result.kind = "nil" /\ size >= 3
    /\ \A n \in Charts : ~input[n].schema.present
    /\ \E n \in Charts : input[n].vals.bad

\* A call that has its values as JSON.
HasJSON(n) ==
    \/ calls[n].pc \in {"route", "dispatch"}
    \/ calls[n].modern > 0
    \/ calls[n].legacy > 0

\* C9: the values given to either library are never the null document, and
\* nil or empty values satisfy a schema that asks only for type object.
C9_NeverNull ==
    \A n \in Charts :
        /\ HasJSON(n) => calls[n].valuesJSON.kind = "object"
        /\ (/\ calls[n].pc \in {"returned", "done"}
            /\ input[n].vals \in {NilMap, EmptyMap}
            /\ \A c \in Children(size, n) : ~input[c].vals.bad
            /\ input[n].schema.present /\ input[n].schema.valid
            /\ input[n].schema.type = "object"
            /\ input[n].schema.required = {}
            /\ input[n].schema.reject = "none" /\ ~input[n].schema.trap) =>
              calls[n].reterr = NilErr

\* C9 witness: nil values were checked against a type-object schema by the
\* new library, without error.
C9_Witness ==
    \E n \in Charts :
        /\ calls[n].pc = "done"
        /\ input[n].vals = NilMap
        /\ input[n].schema.type = "object"
        /\ calls[n].modern > 0
        /\ calls[n].reterr = NilErr

\* C10: a call that got its values as JSON runs exactly one library: when
\* the new validator reports processed, its error is the result and the
\* old library has not run; when it reports not processed, no step of the
\* new library has run and the old library runs once.
C10_ExactlyOneEngine ==
    \A n \in Charts :
        /\ (calls[n].pc \in {"returned", "done"}
                /\ ~Unserializable(input, size, n)) =>
              /\ (calls[n].modern > 0) # (calls[n].legacy > 0)
              /\ calls[n].legacy <= 1
        /\ (calls[n].pc \in {"returned", "done"} /\ calls[n].processed) =>
              /\ calls[n].modern > 0 /\ calls[n].legacy = 0
              /\ calls[n].reterr = calls[n].err
        /\ (calls[n].pc = "dispatch" /\ ~calls[n].processed) =>
              calls[n].modern = 0 /\ calls[n].legacy = 0
        /\ calls[n].legacy > 0 => calls[n].modern = 0 /\ ~calls[n].processed

\* C10 witness: the new validator processed the schema and ended in an
\* error, and the old library did not run.
C10_Witness ==
    \E n \in Charts :
        /\ calls[n].pc = "done"
        /\ calls[n].processed /\ calls[n].err.class = "malformed"
        /\ calls[n].legacy = 0

====
